---- MODULE Spec2Model ----
(***************************************************************************)
(* Plugin host of RPI_Home_System (core/src/plugin_host.rs, core/src/ipc.rs,*)
(* core/src/services/timer.rs): one plugin handle, its child process, the  *)
(* handshake of start_plugin, the reader task, the timer tasks and the     *)
(* callers of call(), all writing to the child's stdin through the writer  *)
(* mutex.                                                                  *)
(*                                                                         *)
(* An Option<T> is a sequence: None is <<>>, Some(x) is <<x>>.             *)
(***************************************************************************)
EXTENDS Integers, Sequences, FiniteSets, TLC

\* Bounds of the model.
MaxCalls == 2     \* invocations of call()
MaxSends == 2     \* lines of the child after its two handshake lines
MaxOut == 1       \* lines in flight on the child's stdout
MaxTimers == 1    \* timer tasks
MaxTicks == 2     \* ticks of each timer task
MaxEntries == 3   \* entries of the plugins directory
MaxStartAll == 2  \* invocations of start_all()
MaxEvents == 3    \* calls, lines after the handshake and ticks, together
MaxPuts == 2      \* put() calls on the store
MaxRestarts == 1  \* crashes of the host followed by a Storage::new
MaxSubs == 1      \* event.subscribe requests of a plugin not yet read
PipeCap == 1      \* lines a plugin's stdin pipe holds
MaxSockets == 3   \* websockets of the user
MaxSets == 2      \* timer.set_interval requests of the child
MaxReceivers == 2 \* subscribe() calls on the event bus
MaxPublishes == 2 \* publish() calls on the event bus

VARIABLES
    status,      \* PluginHandle.status
    handleSubs,  \* PluginHandle.subscriptions
    writerSome,  \* PluginHandle.writer is Some
    childSome,   \* PluginHandle.child is Some
    pending,     \* PluginHandle.pending: request id -> the caller holding the receiver
    sp,          \* position of start_plugin
    spRead,      \* the envelopes start_plugin has read, in order
    mutex,       \* owner of the tokio Mutex around the BufWriter
    wbuf,        \* bytes held by the BufWriter
    wire,        \* bytes that reached the child's stdin
    stdinOpen,   \* the child still holds the read end of its stdin
    childAlive,  \* the child process runs
    out,         \* lines on the child's stdout not yet read by the host
    outClosed,   \* the write end of the child's stdout is closed
    nsent,       \* lines the child has written to its stdout
    nreq,        \* requests the child has sent (numbers its request ids)
    reader,      \* position of the reader task
    rdEnv,       \* the response envelope the reader task is writing
    timers,      \* timer tasks: position and ticks done
    callers,     \* invocations of call(): position, request id, outcome
    nuuid,       \* ids drawn by Uuid::new_v4 so far
    resolved,    \* per caller: envelopes sent into its oneshot channel
    answered,    \* the requests the reader task has read, in order (history)
    subscriptions, \* the set the reader task holds (line 246)
    dropped,     \* the responses the reader task read and discarded (history)
    logged,      \* the lines handed to services::log::write (history)
    listing,     \* the entries of the plugins directory, in read_dir order
    plugins,     \* PluginManager.plugins: id -> directory and status
    dpos,        \* the entry discover() is at
    dres,        \* what discover() returned
    keys,        \* start_all: the ids still to start, in the order of `keys`
    sres,        \* what start_all() returned
    nstart,      \* invocations of start_all() so far
    cenv,        \* codec: the envelope handed to the serializer
    ctext,       \* codec: the JSON text made of it
    cdec,        \* codec: the envelope read back from the text
    data,        \* storage: Storage.data, the map behind the mutex
    file,        \* storage: what <plugin_id>.json holds on disk
    smutex,      \* storage: the put holding the lock of Storage.data
    puts,        \* storage: the put() calls and where each of them is
    base,        \* storage: the map Storage::new loaded
    applied,     \* storage: the puts in the order of their insert
    got,         \* storage: what the last get() returned
    nrestart,    \* storage: crashes followed by a Storage::new so far
    wmutex,      \* two plugins: the task holding each writer's lock
    stdin,       \* two plugins: the lines in each plugin's stdin pipe
    stdout,      \* two plugins: the lines each plugin has sent
    reading,     \* two plugins: whether each plugin reads its stdin
    tasks,       \* two plugins: the host's tasks and where each of them is
    counts,      \* presence: the entry of the user in Presence.counts
    socks,       \* presence: the websockets of the user
    sleeping,    \* presence: the disconnects in their debounce, oldest first
    said,        \* presence: the announcements broadcast (history)
    treqs,       \* timers: the timer.set_interval requests not yet read
    thandled,    \* timers: the requests the reader task has handled
    ttasks,      \* timers: the timer tasks spawned
    twire,       \* timers: the ticks written, each with its task
    subs,        \* event bus: EventBus.subscribers
    rcv,         \* event bus: the receivers handed out
    published    \* event bus: the publishes so far (history)

host == <<status, handleSubs, writerSome, childSome, pending, sp, spRead,
          mutex, wbuf, wire, stdinOpen, childAlive, out, outClosed, nsent,
          nreq, reader, rdEnv, timers, callers, nuuid, resolved, answered,
          subscriptions, dropped, logged>>

\* the variables of the manager seen as a whole
mvars == <<listing, plugins, dpos, dres, keys, sres, nstart>>

\* the variables of the codec on its own
cvars == <<cenv, ctext, cdec>>

\* what is neither the plugin handle's nor the manager's
\* the variables of one plugin's store
svars == <<data, file, smutex, puts, base, applied, got, nrestart>>

\* the variables of two plugins running side by side
wvars == <<wmutex, stdin, stdout, reading, tasks>>

\* the variables of the presence of one user
pvars == <<counts, socks, sleeping, said>>

\* the variables of the timers of one plugin
tvars == <<treqs, thandled, ttasks, twire>>

\* the variables of the event bus
bvars == <<subs, rcv, published>>

others == <<cvars, svars, wvars, pvars, tvars, bvars>>

\* what is not the plugin handle's
aside == <<mvars, others>>

vars == <<host, mvars, others>>

-----------------------------------------------------------------------------
\* plugin_api: Envelope, Kind, RpcError

None == <<>>
Some(x) == <<x>>

Envelope(id, kind, method, params, result, error, topic, payload) ==
    [id |-> id, kind |-> kind, method |-> method, params |-> params,
     result |-> result, error |-> error, topic |-> topic, payload |-> payload]

RpcError(code, message) == [code |-> code, message |-> message]

OkTrue == "{ok:true}"

\* -32601, the code of the reader task's answer to an unknown method
MethodNotFound == 0 - 32601

HelloEnv ==
    Envelope(None, "event", None, None, None, None, Some("core.hello"),
             Some("{api_version,services}"))

ReadyEnv ==
    Envelope(None, "event", None, None, None, None, Some("system.ready"), None)

\* the acknowledgement written by start_plugin and by the known-method handlers
AckEnv(id) ==
    Envelope(id, "response", None, None, Some(OkTrue), None, None, None)

\* a host that acknowledges whatever method it is asked for
UnknownMethodEnv_Acknowledged(id, method) == AckEnv(id)

UnknownMethodEnv(id, method) ==
    Envelope(id, "response", None, None, None,
             Some(RpcError(MethodNotFound, <<"unknown method ", method>>)),
             None, None)

\* services/timer.rs, lines 26-35
TickEnv(id) ==
    Envelope(None, "event", None, None, None, None, Some("timer.tick"),
             Some(<<"id", id, "now_ms">>))

CallEnv(id, method) ==
    Envelope(Some(id), "request", Some(method), Some(<<"params">>), None,
             None, None, None)

\* JSON values inside params: a string, a number
Str(s) == <<"str", s>>

Num(n) == <<"num", n>>

\* {"id": id, "millis": millis}
IntervalParams(id, millis) == Some(<<"interval", id, millis>>)

\* {"topics": [..]}
TopicsParams(topics) == Some(<<"topics", topics>>)

\* {"topics": v} where v is no array
TopicsNoArray(v) == Some(<<"topics_no_array", v>>)

\* {"level": level, "message": message}; Absent where the key is missing
Absent == <<"absent">>

LogParams(level, message) == Some(<<"log", level, message>>)

-----------------------------------------------------------------------------
\* Tasks that take the writer mutex.
Free == <<"free", 0>>
StartTask == <<"start", 0>>
ReaderTask == <<"reader", 0>>
TimerTask(t) == <<"timer", t>>
CallTask(c) == <<"call", c>>

Callers == 1..MaxCalls
Timers == 1..MaxTimers

\* ipc.rs: the line delimited codec.  A line of the child's stdout is either
\* the JSON text of an envelope or text serde_json rejects (a blank line too).
Line(env) == <<"json", env>>
Junk == <<"junk">>

\* read_envelope on a pipe: Err on end of stream and on an undecodable line.
read_envelope ==
    IF out = <<>> THEN <<"Err">>
    ELSE IF Head(out)[1] = "json" THEN <<"Ok", Head(out)[2]>>
    ELSE <<"Err">>

CanRead == out # <<>> \/ outClosed

\* what has happened to the host so far: invocations of call(), lines of the
\* child after its two handshake lines, ticks of the timers
Events ==
    LET Ticks[n \in 0..MaxTimers] ==
            IF n = 0 THEN 0
            ELSE Ticks[n - 1] + timers[n].ticks
                 + (IF timers[n].pc = "flush" THEN 1 ELSE 0)
    IN Cardinality({c \in Callers : callers[c].pc # "new"})
       + (IF nsent > 2 THEN nsent - 2 ELSE 0)
       + Ticks[MaxTimers]

\* write_envelope, lines 18-19: the serialized envelope goes to the BufWriter.
write_body(env) == wbuf' = Append(wbuf, <<"body", env>>)

\* write_envelope, lines 20-21: the terminator, then flush.  Ok moves the
\* buffer to the pipe; with the read end closed flush fails and the bytes
\* stay in the buffer.
write_flush_ok ==
    /\ stdinOpen
    /\ wire' = wire \o Append(wbuf, <<"nl">>)
    /\ wbuf' = <<>>

write_flush_err ==
    /\ ~stdinOpen
    /\ wbuf' = Append(wbuf, <<"nl">>)
    /\ UNCHANGED wire

\* a writer shared without mutual exclusion
lock_NoExclusion(task) == mutex' = task

\* tokio::sync::Mutex::lock
lock(task) == mutex = Free /\ mutex' = task

unlock == mutex' = Free

-----------------------------------------------------------------------------
\* PluginHandle::new, lines 56-66, before start_plugin has run
HostInit ==
    /\ status = "Discovered"
    /\ writerSome = FALSE
    /\ childSome = FALSE
    /\ pending = <<>>
    /\ sp = "new"
    /\ spRead = <<>>
    /\ mutex = Free
    /\ wbuf = <<>>
    /\ wire = <<>>
    /\ stdinOpen = FALSE
    /\ childAlive = FALSE
    /\ out = <<>>
    /\ outClosed = FALSE
    /\ nsent = 0
    /\ nreq = 0
    /\ reader = "none"
    /\ rdEnv = None
    /\ timers = [t \in Timers |-> [pc |-> "none", id |-> None, ticks |-> 0]]
    /\ callers = [c \in Callers |->
                    [pc |-> "new", plugin |-> None, id |-> None, late |-> FALSE,
                     ret |-> None]]
    /\ nuuid = 0
    /\ resolved = [c \in Callers |-> <<>>]
    /\ answered = <<>>
    /\ handleSubs = {}
    /\ subscriptions = {}
    /\ dropped = <<>>
    /\ logged = <<>>

\* no discover() and no start_all() of the manager as a whole is under way
ManagerIdle ==
    /\ listing = <<>>
    /\ plugins = <<>>
    /\ dpos = 1
    /\ dres = "none"
    /\ keys = <<>>
    /\ sres = "none"
    /\ nstart = 0

\* no envelope is being serialized on its own
CodecIdle ==
    /\ cenv = None
    /\ ctext = None
    /\ cdec = None

\* no store is open
StorageIdle ==
    /\ data = None
    /\ file = None
    /\ smutex = None
    /\ puts = None
    /\ base = None
    /\ applied = None
    /\ got = None
    /\ nrestart = 0

\* no second plugin is looked at
WritersIdle ==
    /\ wmutex = None
    /\ stdin = None
    /\ stdout = None
    /\ reading = None
    /\ tasks = None

\* no presence is kept
PresenceIdle ==
    /\ counts = None
    /\ socks = None
    /\ sleeping = None
    /\ said = None

\* no timer is looked at on its own
TimersIdle ==
    /\ treqs = None
    /\ thandled = None
    /\ ttasks = None
    /\ twire = None

\* no event bus is made
BusIdle ==
    /\ subs = None
    /\ rcv = None
    /\ published = None

\* nothing but the plugin host is looked at
SidesIdle == PresenceIdle /\ TimersIdle /\ BusIdle

Init ==
    /\ HostInit
    /\ ManagerIdle
    /\ CodecIdle
    /\ StorageIdle
    /\ WritersIdle
    /\ SidesIdle

-----------------------------------------------------------------------------
\* PluginManager::start_plugin

\* lines 164-172: spawn the child with piped stdin and stdout
Spawn ==
    /\ sp = "new"
    /\ sp' = "hello"
    /\ childAlive' = TRUE
    /\ stdinOpen' = TRUE
    /\ UNCHANGED <<aside, status, handleSubs, writerSome, childSome, pending,
                   spRead, mutex, wbuf, wire, out, outClosed, nsent, nreq,
                   reader, rdEnv, timers, callers, nuuid, resolved, answered,
                   subscriptions, dropped, logged>>

\* line 168: cmd.spawn() fails, start_plugin returns the error
SpawnFails ==
    /\ sp = "new"
    /\ sp' = "failed"
    /\ UNCHANGED <<aside, status, handleSubs, writerSome, childSome, pending,
                   spRead, mutex, wbuf, wire, stdinOpen, childAlive, out,
                   outClosed, nsent, nreq, reader, rdEnv, timers, callers,
                   nuuid, resolved, answered, subscriptions, dropped, logged>>

StartFrame ==
    UNCHANGED <<aside, status, handleSubs, writerSome, childSome, pending,
                stdinOpen, childAlive, outClosed, nsent, nreq, reader, rdEnv,
                timers, callers, nuuid, resolved, answered, subscriptions,
                dropped, logged>>

\* a step of start_plugin that takes the mutex and hands `env` to the writer
StartWriteBody(from, to, env) ==
    /\ sp = from
    /\ lock(StartTask)
    /\ write_body(env)
    /\ sp' = to
    /\ UNCHANGED <<wire, out, spRead>>
    /\ StartFrame

\* the flush of that envelope; `?` returns the error and drops the guard
StartFlush(from, to) ==
    /\ sp = from
    /\ \/ write_flush_ok /\ sp' = to
       \/ write_flush_err /\ sp' = "failed"
    /\ unlock
    /\ UNCHANGED <<out, spRead>>
    /\ StartFrame

\* lines 174-188
WriteHello == StartWriteBody("hello", "hello_flush", HelloEnv)

FlushHello == StartFlush("hello_flush", "read_init")

\* the test of lines 192 and 214
IsRequestFor(env, method) == env.kind = "request" /\ env.method = Some(method)

\* a read of the handshake: lines 191-192 and 213-214
StartRead(from, to, method) ==
    /\ sp = from
    /\ CanRead
    /\ out' = IF out = <<>> THEN out ELSE Tail(out)
    /\ IF read_envelope[1] = "Ok" /\ IsRequestFor(read_envelope[2], method)
       THEN sp' = to /\ spRead' = Append(spRead, read_envelope[2])
       ELSE sp' = "failed" /\ UNCHANGED spRead
    /\ UNCHANGED <<mutex, wbuf, wire>>
    /\ StartFrame

ReadInit == StartRead("read_init", "init_ack", "plugin.init")

\* lines 194-207
WriteInitAck ==
    StartWriteBody("init_ack", "init_flush", AckEnv(spRead[Len(spRead)].id))

FlushInitAck == StartFlush("init_flush", "read_start")

ReadStart == StartRead("read_start", "start_ack", "plugin.start")

\* lines 215-227: the guard taken here is kept for system.ready
\* a handshake that announces system.ready in place of the plugin.start answer
WriteStartAck_ReadyFirst ==
    StartWriteBody("start_ack", "start_flush", ReadyEnv)

WriteStartAck ==
    StartWriteBody("start_ack", "start_flush", AckEnv(spRead[Len(spRead)].id))

FlushStartAck ==
    /\ sp = "start_flush"
    /\ \/ write_flush_ok /\ sp' = "ready" /\ UNCHANGED mutex
       \/ write_flush_err /\ sp' = "failed" /\ unlock
    /\ UNCHANGED <<out, spRead>>
    /\ StartFrame

\* a handshake that never announces system.ready
WriteReady_Skipped ==
    /\ sp = "ready"
    /\ mutex = StartTask
    /\ sp' = "ready_flush"
    /\ UNCHANGED <<mutex, wbuf, wire, out, spRead>>
    /\ StartFrame

\* lines 228-238
WriteReady ==
    /\ sp = "ready"
    /\ mutex = StartTask
    /\ write_body(ReadyEnv)
    /\ sp' = "ready_flush"
    /\ UNCHANGED <<mutex, wire, out, spRead>>
    /\ StartFrame

FlushReady == StartFlush("ready_flush", "set_running")

\* a start_plugin that keeps the child and forgets the writer
StoreHandle_ChildOnly == writerSome' = writerSome /\ childSome' = TRUE

\* lines 381-382: handle.writer = Some(writer); handle.child = Some(child)
StoreHandle == writerSome' = TRUE /\ childSome' = TRUE

\* lines 240-383: the status, the reader task, the writer and the child;
\* nothing is awaited between line 240 and line 383
SetRunning ==
    /\ sp = "set_running"
    /\ sp' = "done"
    /\ status' = "Running"
    /\ reader' = "read"
    /\ StoreHandle
    /\ handleSubs' = {}
    /\ subscriptions' = {}
    /\ UNCHANGED <<aside, pending, spRead, mutex, wbuf, wire, stdinOpen,
                   childAlive, out, outClosed, nsent, nreq, rdEnv, timers,
                   callers, nuuid, resolved, answered, dropped, logged>>

start_plugin ==
    \/ Spawn
    \/ SpawnFails
    \/ WriteHello
    \/ FlushHello
    \/ ReadInit
    \/ WriteInitAck
    \/ FlushInitAck
    \/ ReadStart
    \/ WriteStartAck
    \/ FlushStartAck
    \/ WriteReady
    \/ FlushReady
    \/ SetRunning

-----------------------------------------------------------------------------
\* The child process: what it writes to its stdout, and its exit.

PluginRequest(method, params) ==
    Envelope(Some(<<"p", nreq + 1>>), "request", method, params, None, None,
             None, None)

\* the request ids the child has read from its stdin
SeenRequestIds ==
    {wire[i][2].id[1] : i \in {j \in 1..Len(wire) :
        wire[j][1] = "body" /\ wire[j][2].kind = "request"}}

UnknownId == <<"u", 0>>

PluginResponse(id, failed) ==
    Envelope(Some(id), "response", None, None,
             IF failed THEN None ELSE Some(<<"result", nsent + 1>>),
             IF failed THEN Some(RpcError(7, <<"failure", nsent + 1>>)) ELSE None,
             None, None)

\* a response that carries neither a result nor an error
PluginResponseBare(id) ==
    Envelope(Some(id), "response", None, None, None, None, None, None)

\* a response without an id
PluginResponseNoId ==
    Envelope(None, "response", None, None, Some(<<"result", nsent + 1>>),
             None, None, None)

PluginEvent ==
    Envelope(None, "event", None, None, None, None, Some("plugin.event"), None)

\* lines 310-317: timer.set_interval with a string id and a u64 millis
SpawnsTimer(env) ==
    /\ env.method = Some("timer.set_interval")
    /\ env.params # None
    /\ env.params[1][1] = "interval"
    /\ env.params[1][2][1] = "str"
    /\ env.params[1][3][1] = "num"
    /\ env.params[1][3][2] >= 0

TimerRequests ==
    Cardinality({i \in 1..Len(out) : out[i][1] = "json" /\ SpawnsTimer(out[i][2])})
    + Cardinality({t \in Timers : timers[t].pc # "none"})

\* the child names its timers after the requests that set them; an id that
\* is a number is no timer id
TimerParamsSent ==
    {IntervalParams(Num(0), Num(10))}
    \cup IF TimerRequests < MaxTimers
         THEN {IntervalParams(Str(<<"t", nreq + 1>>), Num(10))}
         ELSE {}

\* the lists of topics the child subscribes to; the second one holds an item
\* that is no string
TopicsSent ==
    {<<Str("timer.tick")>>, <<Str("plugin.event"), Num(1)>>}

\* the first two lines of a child are drawn from the handshake's requests
HandshakeLines ==
    {Line(PluginRequest(Some(m), None)) : m \in {"plugin.init", "plugin.start"}}
    \cup {Junk}

RunLines ==
    {Line(PluginRequest(Some(m), None)) : m \in {"log.write", "nope"}}
    \cup {Line(PluginRequest(None, None))}
    \cup {Line(PluginRequest(Some("timer.set_interval"), p)) :
            p \in TimerParamsSent}
    \cup {Line(PluginRequest(Some("event.subscribe"), TopicsParams(T))) :
            T \in TopicsSent}
    \cup {Line(PluginResponse(id, f)) :
            id \in SeenRequestIds \cup {UnknownId}, f \in BOOLEAN}
    \cup {Line(PluginResponseBare(id)) : id \in SeenRequestIds}
    \cup {Line(PluginResponseNoId)}
    \cup {Line(PluginEvent), Junk}

PluginSend ==
    /\ childAlive
    /\ sp \notin {"new", "failed"}
    /\ Len(out) < MaxOut
    /\ nsent < 2 + MaxSends
    /\ nsent >= 2 => Events < MaxEvents
    /\ \E line \in IF nsent < 2 THEN HandshakeLines ELSE RunLines :
        /\ out' = Append(out, line)
        /\ nreq' = IF line[1] = "json" /\ line[2].kind = "request"
                   THEN nreq + 1 ELSE nreq
    /\ nsent' = nsent + 1
    /\ UNCHANGED <<aside, status, handleSubs, writerSome, childSome, pending,
                   sp, spRead, mutex, wbuf, wire, stdinOpen, childAlive,
                   outClosed, reader, rdEnv, timers, callers, nuuid, resolved,
                   answered, subscriptions, dropped, logged>>

\* the child exits: both of its pipe ends close
PluginExit ==
    /\ childAlive
    /\ childAlive' = FALSE
    /\ stdinOpen' = FALSE
    /\ outClosed' = TRUE
    /\ UNCHANGED <<aside, status, handleSubs, writerSome, childSome, pending,
                   sp, spRead, mutex, wbuf, wire, out, nsent, nreq, reader,
                   rdEnv, timers, callers, nuuid, resolved, answered,
                   subscriptions, dropped, logged>>

-----------------------------------------------------------------------------
\* The reader task spawned by start_plugin, lines 252-379.

KnownMethods == {"log.write", "event.subscribe", "timer.set_interval"}

\* lines 259-360: the response the reader task writes for a request, if any
ResponseFor(env) ==
    IF env.method = None THEN None
    ELSE IF env.method[1] \in KnownMethods THEN Some(AckEnv(env.id))
    ELSE Some(UnknownMethodEnv(env.id, env.method[1]))

\* a handler that logs whatever level and message hold
LogLine_Unchecked(env) ==
    IF env.method = Some("log.write") /\ env.params # None
       /\ env.params[1][1] = "log"
    THEN Some(<<env.params[1][2], env.params[1][3]>>)
    ELSE None

\* lines 261-272: log.write hands level and message to the log if both are
\* there and both are strings
LogLine(env) ==
    IF env.method = Some("log.write") /\ env.params # None
       /\ env.params[1][1] = "log"
       /\ env.params[1][2][1] = "str"
       /\ env.params[1][3][1] = "str"
    THEN Some(<<env.params[1][2], env.params[1][3]>>)
    ELSE None

FreeTimer == CHOOSE t \in Timers : timers[t].pc = "none"

\* lines 318-326 and services/timer.rs, spawn_timer: a new task that holds
\* the id of the request, about to tick
spawn_timer(params) ==
    timers' = [timers EXCEPT ![FreeTimer].pc = "tick",
                             ![FreeTimer].id = Some(params[1][2][2])]

\* the string items of params.topics, lines 286-295
StringTopics(params) ==
    IF params = None \/ params[1][1] # "topics" THEN {}
    ELSE LET arr == params[1][2]
         IN {arr[i][2] : i \in {j \in 1..Len(arr) : arr[j][1] = "str"}}

\* a subscription that replaces the set
Subscribe_Replace(env) == subscriptions' = StringTopics(env.params)

\* lines 290-295: subs.insert(t) for each string topic
Subscribe(env) == subscriptions' = subscriptions \cup StringTopics(env.params)

\* a lookup that leaves the entry in the table
PendingRemove_Kept(id) == pending

\* line 363: pending.lock().remove(&id)
PendingRemove(id) == [i \in DOMAIN pending \ {id} |-> pending[i]]

\* line 362-363: the response has an id and the id is a key of the table
HasSlot(env) == env.id # None /\ env.id[1] \in DOMAIN pending

\* a reader task that gives up every waiting call on a response it cannot place
Deliver_UnknownClears(env) ==
    IF HasSlot(env)
    THEN /\ resolved' = [resolved EXCEPT ![pending[env.id[1]]] = Append(@, env)]
         /\ pending' = PendingRemove(env.id[1])
    ELSE pending' = <<>> /\ UNCHANGED resolved

\* a table that hands a response to the oldest waiter, whatever its id
Deliver_Oldest(env) ==
    IF env.id # None /\ DOMAIN pending # {}
    THEN LET id == CHOOSE i \in DOMAIN pending :
                       \A j \in DOMAIN pending : i[2] <= j[2]
         IN /\ resolved' = [resolved EXCEPT ![pending[id]] = Append(@, env)]
            /\ pending' = PendingRemove(id)
    ELSE UNCHANGED <<resolved, pending>>

\* lines 361-367: a response is handed to the sender stored under its id
Deliver(env) ==
    IF env.id # None /\ env.id[1] \in DOMAIN pending
    THEN /\ resolved' = [resolved EXCEPT ![pending[env.id[1]]] = Append(@, env)]
         /\ pending' = PendingRemove(env.id[1])
    ELSE UNCHANGED <<resolved, pending>>

ReaderFrame ==
    UNCHANGED <<aside, status, handleSubs, writerSome, childSome, sp, spRead,
                stdinOpen, childAlive, outClosed, nsent, nreq, callers, nuuid>>

\* a reader task that skips what it cannot read
ReaderErr_Skip == reader' = "read"

\* lines 373-376: the error is logged and the loop is left
ReaderErr == reader' = "exited"

\* line 256 and the match on the envelope read
ReaderRead ==
    /\ reader = "read"
    /\ CanRead
    /\ out' = IF out = <<>> THEN out ELSE Tail(out)
    /\ IF read_envelope[1] = "Err"
       THEN /\ ReaderErr
            /\ UNCHANGED <<rdEnv, timers, pending, resolved, answered,
                           subscriptions, dropped, logged>>
       ELSE LET env == read_envelope[2] IN
            IF env.kind = "request"
            THEN /\ answered' = Append(answered, env)
                 /\ IF SpawnsTimer(env) THEN spawn_timer(env.params)
                    ELSE UNCHANGED timers
                 /\ IF env.method = Some("event.subscribe") THEN Subscribe(env)
                    ELSE UNCHANGED subscriptions
                 /\ logged' = IF LogLine(env) = None THEN logged
                              ELSE Append(logged, LogLine(env)[1])
                 /\ UNCHANGED dropped
                 /\ rdEnv' = ResponseFor(env)
                 /\ reader' = IF ResponseFor(env) = None THEN "read" ELSE "respond"
                 /\ UNCHANGED <<pending, resolved>>
            ELSE IF env.kind = "response"
            THEN /\ Deliver(env)
                 /\ dropped' = IF HasSlot(env) THEN dropped
                               ELSE Append(dropped, env)
                 /\ UNCHANGED <<reader, rdEnv, timers, answered,
                                subscriptions, logged>>
            ELSE \* lines 368-370
                 UNCHANGED <<reader, rdEnv, timers, pending, resolved,
                             answered, subscriptions, dropped, logged>>
    /\ UNCHANGED <<mutex, wbuf, wire>>
    /\ ReaderFrame

\* writer.lock().await and the first half of write_envelope
ReaderWriteBody ==
    /\ reader = "respond"
    /\ lock(ReaderTask)
    /\ write_body(rdEnv[1])
    /\ reader' = "flush"
    /\ UNCHANGED <<wire, out, rdEnv, timers, pending, resolved, answered,
                   subscriptions, dropped, logged>>
    /\ ReaderFrame

\* `let _ = write_envelope(..)`: the result is dropped, the loop goes on
ReaderFlush ==
    /\ reader = "flush"
    /\ write_flush_ok \/ write_flush_err
    /\ unlock
    /\ reader' = "read"
    /\ rdEnv' = None
    /\ UNCHANGED <<out, timers, pending, resolved, answered, subscriptions,
                   dropped, logged>>
    /\ ReaderFrame

-----------------------------------------------------------------------------
\* services/timer.rs: the task spawned by spawn_timer

TimerFrame ==
    UNCHANGED <<aside, status, handleSubs, writerSome, childSome, pending, sp,
                spRead, stdinOpen, childAlive, out, outClosed, nsent, nreq,
                reader, rdEnv, callers, nuuid, resolved, answered,
                subscriptions, dropped, logged>>

\* lines 21-36: interval.tick() returned, the tick is handed to the writer
TimerWriteBody(t) ==
    /\ timers[t].pc = "tick"
    /\ timers[t].ticks < MaxTicks
    /\ Events < MaxEvents
    /\ lock(TimerTask(t))
    /\ write_body(TickEnv(timers[t].id[1]))
    /\ timers' = [timers EXCEPT ![t].pc = "flush"]
    /\ UNCHANGED wire
    /\ TimerFrame

\* a timer that fires once and ends
TimerFlush_Once(t) ==
    /\ timers[t].pc = "flush"
    /\ write_flush_ok \/ write_flush_err
    /\ unlock
    /\ timers' = [timers EXCEPT ![t].pc = "done", ![t].ticks = @ + 1]
    /\ TimerFrame

\* a timer task that keeps the guard of the writer from one tick to the next
TimerFlush_KeepsGuard(t) ==
    /\ timers[t].pc = "flush"
    /\ write_flush_ok \/ write_flush_err
    /\ UNCHANGED mutex
    /\ timers' = [timers EXCEPT ![t].pc = "tick", ![t].ticks = @ + 1]
    /\ TimerFrame

\* line 37: `let _ = write_envelope(..)`, then the next round of the loop
TimerFlush(t) ==
    /\ timers[t].pc = "flush"
    /\ write_flush_ok \/ write_flush_err
    /\ unlock
    /\ timers' = [timers EXCEPT ![t].pc = "tick", ![t].ticks = @ + 1]
    /\ TimerFrame

-----------------------------------------------------------------------------
\* PluginManager::call

CallFrame ==
    UNCHANGED <<aside, status, handleSubs, writerSome, childSome, sp, spRead,
                stdinOpen, childAlive, out, outClosed, nsent, nreq, reader,
                rdEnv, timers, resolved, answered, subscriptions, dropped, logged>>

\* Uuid::new_v4
NewUuid == <<"u", nuuid + 1>>

\* a call() that writes its request without having stored its sender
PendingInsert_Skipped(id, c) == pending

\* line 402: pending.lock().insert(id, tx)
PendingInsert(id, c) ==
    [i \in DOMAIN pending \cup {id} |-> IF i = id THEN c ELSE pending[i]]

\* the error value of anyhow: a message and nothing else
anyhow(message) == [message |-> message]

\* the keys of PluginManager.plugins: the one plugin that discover() found
Plugins == {"sample"}

\* what call() may be given as its plugin id
PluginIds == Plugins \cup {"absent"}

\* a call() that goes on whenever the id is a key of the table
CallTarget_WriterUnchecked(plugin) ==
    IF plugin \notin Plugins THEN Some(anyhow(<<"plugin not found">>))
    ELSE None

\* lines 388-389: the two lookups call() makes before anything else
CallTarget(plugin) ==
    IF plugin \notin Plugins THEN Some(anyhow(<<"plugin not found">>))
    ELSE IF ~writerSome THEN Some(anyhow(<<"plugin not running">>))
    ELSE None

\* lines 388-402.  call() borrows the manager that start_all borrows mutably,
\* so no call starts while start_plugin runs.  The invocations are numbered
\* in the order in which they start.
CallStart(c) ==
    /\ callers[c].pc = "new"
    /\ \A d \in Callers : d < c => callers[d].pc # "new"
    /\ Events < MaxEvents
    /\ sp \in {"new", "done", "failed"}
    /\ \E plugin \in PluginIds :
        IF CallTarget(plugin) # None
        THEN /\ callers' = [callers EXCEPT ![c].pc = "err",
                                ![c].plugin = Some(plugin),
                                ![c].ret = CallTarget(plugin)]
             /\ UNCHANGED <<pending, nuuid>>
        ELSE /\ callers' = [callers EXCEPT ![c].pc = "lock",
                                ![c].plugin = Some(plugin),
                                ![c].id = Some(NewUuid),
                                ![c].late = (reader = "exited" /\ ~childAlive)]
             /\ nuuid' = nuuid + 1
             /\ pending' = PendingInsert(NewUuid, c)
    /\ UNCHANGED <<mutex, wbuf, wire>>
    /\ CallFrame

\* lines 404-405, first half
CallWriteBody(c) ==
    /\ callers[c].pc = "lock"
    /\ lock(CallTask(c))
    /\ write_body(CallEnv(callers[c].id[1], "ping"))
    /\ callers' = [callers EXCEPT ![c].pc = "flush"]
    /\ UNCHANGED <<wire, pending, nuuid>>
    /\ CallFrame

\* a call() that drops the result of write_envelope as the reader task does
CallFlushResult_ErrorDropped(c) ==
    /\ write_flush_ok \/ write_flush_err
    /\ callers' = [callers EXCEPT ![c].pc = "await"]

\* line 405: `write_envelope(..).await?`
CallFlushResult(c) ==
    \/ write_flush_ok /\ callers' = [callers EXCEPT ![c].pc = "await"]
    \/ write_flush_err /\ callers' = [callers EXCEPT ![c].pc = "err",
                                          ![c].ret =
                                              Some(anyhow(<<"write failed">>))]

CallFlush(c) ==
    /\ callers[c].pc = "flush"
    /\ CallFlushResult(c)
    /\ unlock
    /\ UNCHANGED <<pending, nuuid>>
    /\ CallFrame

\* lines 408-411: what call() returns for the response it received
CallResult(resp) ==
    IF resp.error # None
    THEN [pc |-> "err", ret |-> Some(anyhow(resp.error[1].message))]
    ELSE [pc |-> "ok",
          ret |-> IF resp.result = None THEN Some(<<"null">>) ELSE resp.result]

\* line 407: rx.await yields the envelope sent into the channel
CallReturn(c) ==
    /\ callers[c].pc = "await"
    /\ resolved[c] # <<>>
    /\ callers' = [callers EXCEPT ![c].pc = CallResult(resolved[c][1]).pc,
                                  ![c].ret = CallResult(resolved[c][1]).ret]
    /\ UNCHANGED <<mutex, wbuf, wire, pending, nuuid>>
    /\ CallFrame

\* the future of call() is dropped at one of its two suspension points,
\* `writer.lock().await` (line 404) and `rx.await` (line 407).  Nothing in
\* call() runs on drop: the sender stays in the pending table.
CallCancel(c) ==
    /\ callers[c].pc \in {"lock", "await"}
    /\ callers' = [callers EXCEPT ![c].pc = "cancelled"]
    /\ UNCHANGED <<mutex, wbuf, wire, pending, nuuid>>
    /\ CallFrame

call(c) ==
    \/ CallStart(c)
    \/ CallWriteBody(c)
    \/ CallFlush(c)
    \/ CallReturn(c)
    \/ CallCancel(c)

-----------------------------------------------------------------------------
Next ==
    \/ start_plugin
    \/ PluginSend
    \/ PluginExit
    \/ ReaderRead
    \/ ReaderWriteBody
    \/ ReaderFlush
    \/ \E t \in Timers : TimerWriteBody(t) \/ TimerFlush(t)
    \/ \E c \in Callers : call(c)

Spec == Init /\ [][Next]_vars

\* tokio polls a spawned task and an awaited future whenever it can go on, so
\* no task of the host that can take a step waits for ever.  Nothing is
\* assumed of the child, nor of when call() is invoked.
ReaderNext == ReaderRead \/ ReaderWriteBody \/ ReaderFlush

TimerNext(t) == TimerWriteBody(t) \/ TimerFlush(t)

CallNext(c) == CallWriteBody(c) \/ CallFlush(c) \/ CallReturn(c)

FairSpec ==
    /\ Spec
    /\ WF_vars(start_plugin)
    /\ WF_vars(ReaderNext)
    /\ \A t \in Timers : WF_vars(TimerNext(t))
    /\ \A c \in Callers : WF_vars(CallNext(c))

-----------------------------------------------------------------------------
\* The handshake of start_plugin alone, against a child whose two lines may
\* be any envelope.

PluginRequestNoId(method) ==
    Envelope(None, "request", Some(method), None, None, None, None, None)

AnyHandshakeLines ==
    HandshakeLines
    \cup {Line(PluginRequestNoId(m)) : m \in {"plugin.init", "plugin.start"}}
    \cup {Line(PluginResponse(UnknownId, FALSE)), Line(PluginEvent)}

HandshakeSend ==
    /\ childAlive
    /\ sp \notin {"new", "failed", "done"}
    /\ Len(out) < MaxOut
    /\ nsent < 2
    /\ \E line \in AnyHandshakeLines :
        /\ out' = Append(out, line)
        /\ nreq' = IF line[1] = "json" /\ line[2].kind = "request"
                      /\ line[2].id # None
                   THEN nreq + 1 ELSE nreq
    /\ nsent' = nsent + 1
    /\ UNCHANGED <<aside, status, handleSubs, writerSome, childSome, pending,
                   sp, spRead, mutex, wbuf, wire, stdinOpen, childAlive,
                   outClosed, reader, rdEnv, timers, callers, nuuid, resolved,
                   answered, subscriptions, dropped, logged>>

HandshakeNext ==
    \/ start_plugin
    \/ HandshakeSend
    \/ PluginExit

HandshakeSpec == Init /\ [][HandshakeNext]_vars

-----------------------------------------------------------------------------
\* The built-in handlers of the reader task, against a child that sends the
\* three known methods with params of every kind.

\* the params of log.write: none, a level and a message, a message that is
\* a number, no message
LogParamsSent ==
    {None, LogParams(Str("INFO"), Str("m")), LogParams(Str("INFO"), Num(1)),
     LogParams(Str("INFO"), Absent)}

\* the params of timer.set_interval: none, millis that is a string, millis
\* below zero, and those of TimerParamsSent
AnyTimerParams ==
    {None, IntervalParams(Str(<<"t", nreq + 1>>), Str("10")),
     IntervalParams(Str(<<"t", nreq + 1>>), Num(0 - 10))}
    \cup TimerParamsSent

\* the params of event.subscribe: none, topics that is a string, and the
\* arrays of TopicsSent
AnyTopicsParams ==
    {None, TopicsNoArray(Str("timer.tick"))}
    \cup {TopicsParams(T) : T \in TopicsSent}

ParamLines ==
    {Line(PluginRequest(Some("log.write"), p)) : p \in LogParamsSent}
    \cup {Line(PluginRequest(Some("timer.set_interval"), p)) :
            p \in AnyTimerParams}
    \cup {Line(PluginRequest(Some("event.subscribe"), p)) :
            p \in AnyTopicsParams}

ParamsSend ==
    /\ childAlive
    /\ sp \notin {"new", "failed"}
    /\ Len(out) < MaxOut
    /\ nsent < 2 + MaxSends
    /\ nsent >= 2 => Events < MaxEvents
    /\ \E line \in IF nsent < 2 THEN HandshakeLines ELSE ParamLines :
        /\ out' = Append(out, line)
        /\ nreq' = IF line[1] = "json" THEN nreq + 1 ELSE nreq
    /\ nsent' = nsent + 1
    /\ UNCHANGED <<aside, status, handleSubs, writerSome, childSome, pending,
                   sp, spRead, mutex, wbuf, wire, stdinOpen, childAlive,
                   outClosed, reader, rdEnv, timers, callers, nuuid, resolved,
                   answered, subscriptions, dropped, logged>>

ParamsNext ==
    \/ start_plugin
    \/ ParamsSend
    \/ PluginExit
    \/ ReaderNext
    \/ \E t \in Timers : TimerNext(t)

ParamsSpec == Init /\ [][ParamsNext]_vars

-----------------------------------------------------------------------------
\* PluginManager::discover and PluginManager::start_all over a directory of
\* several plugins.  start_plugin is one step here: it succeeds for a plugin
\* whose spawn and handshake succeed, and fails otherwise.

\* the ids that manifests declare
ManifestIds == {"a", "b"}

\* an entry of the plugins directory: a file, a directory without
\* plugin.toml, a directory whose plugin.toml does not parse, or a plugin
\* with the id of its manifest; `healthy` tells whether its executable
\* spawns and completes the handshake
DirEntry(kind, id, healthy) == [kind |-> kind, id |-> id, healthy |-> healthy]

DirEntries ==
    {DirEntry(k, "", FALSE) : k \in {"file", "empty", "unparsable"}}
    \cup {DirEntry("plugin", id, h) : id \in ManifestIds, h \in BOOLEAN}

Listings == UNION {[1..n -> DirEntries] : n \in 0..MaxEntries}

ManagerInit ==
    /\ HostInit
    /\ CodecIdle
    /\ StorageIdle
    /\ WritersIdle
    /\ SidesIdle
    /\ listing \in Listings
    /\ plugins = <<>>
    /\ dpos = 1
    /\ dres = "none"
    /\ keys = <<>>
    /\ sres = "none"
    /\ nstart = 0

\* PluginHandle::new for the manifest of directory d; `children` counts the
\* child processes running for the handle and `readers` the reader tasks
\* that hold its pending table
PluginHandle(d) ==
    [dir |-> d, status |-> "Discovered", children |-> 0, readers |-> 0]

\* line 136: plugins.insert(manifest.id.clone(), handle)
Insert(id, handle) ==
    [i \in DOMAIN plugins \cup {id} |-> IF i = id THEN handle ELSE plugins[i]]

\* lines 126-139: one round of the loop over read_dir
DiscoverEntry ==
    /\ dres = "none"
    /\ dpos <= Len(listing)
    /\ LET entry == listing[dpos] IN
        IF entry.kind = "unparsable"
        THEN \* line 134: toml::from_str(&text)?
             dres' = "Err" /\ UNCHANGED <<plugins, dpos>>
        ELSE /\ plugins' = IF entry.kind = "plugin"
                           THEN Insert(entry.id, PluginHandle(dpos))
                           ELSE plugins
             /\ dpos' = dpos + 1
             /\ UNCHANGED dres
    /\ UNCHANGED <<host, others, listing, keys, sres, nstart>>

\* lines 140-143
DiscoverReturn ==
    /\ dres = "none"
    /\ dpos > Len(listing)
    /\ dres' = "Ok"
    /\ UNCHANGED <<host, others, listing, plugins, dpos, keys, sres, nstart>>

\* the orders in which a HashMap may hand out its keys
KeyOrders ==
    LET K == DOMAIN plugins
    IN {o \in [1..Cardinality(K) -> K] :
            \A i, j \in 1..Cardinality(K) : i # j => o[i] # o[j]}

\* line 155.  start_all takes the manager by &mut, so an invocation begins
\* only when no other is under way; nothing else restricts it.
StartAllKeys ==
    /\ dres = "Ok"
    /\ sres # "running"
    /\ nstart < MaxStartAll
    /\ nstart' = nstart + 1
    /\ keys' \in KeyOrders
    /\ sres' = "running"
    /\ UNCHANGED <<host, others, listing, plugins, dpos, dres>>

\* lines 156-159: start_plugin(..).await? for the next key
StartAllPlugin ==
    /\ sres = "running"
    /\ keys # <<>>
    /\ LET id == Head(keys) IN
        IF listing[plugins[id].dir].healthy
        THEN \* start_plugin, lines 168, 240, 252, 381-382: a child is
             \* spawned, a reader task is spawned, and what the handle held
             \* before is dropped, which neither kills nor aborts it
             /\ plugins' = [plugins EXCEPT ![id].status = "Running",
                                           ![id].children = @ + 1,
                                           ![id].readers = @ + 1]
             /\ keys' = Tail(keys)
             /\ UNCHANGED sres
        ELSE /\ sres' = "Err"
             /\ UNCHANGED <<plugins, keys>>
    /\ UNCHANGED <<host, others, listing, dpos, dres, nstart>>

\* line 160
StartAllReturn ==
    /\ sres = "running"
    /\ keys = <<>>
    /\ sres' = "Ok"
    /\ UNCHANGED <<host, others, listing, plugins, dpos, dres, keys, nstart>>

ManagerNext ==
    \/ DiscoverEntry
    \/ DiscoverReturn
    \/ StartAllKeys
    \/ StartAllPlugin
    \/ StartAllReturn

ManagerSpec == ManagerInit /\ [][ManagerNext]_vars

-----------------------------------------------------------------------------
\* The codec of ipc.rs on its own: serde_json::to_string of an Envelope and
\* serde_json::from_str of the text.  A JSON text is kept as its members.

JNull == <<"null">>

\* serde_json::Value: null, a number, a string
Values == {JNull, Num(1), Str("v")}

\* every kind and every combination of present and absent fields; a field of
\* type Option<Value> that is present holds any Value
CodecEnvelopes ==
    {Envelope(id, kind, method, params, result, error, topic, payload) :
        id \in {None, Some("1")},
        kind \in {"request", "response", "event"},
        method \in {None, Some("m")},
        params \in {None} \cup {Some(v) : v \in Values},
        result \in {None, Some(Num(1))},
        error \in {None, Some(RpcError(7, "e"))},
        topic \in {None, Some("t")},
        payload \in {None} \cup {Some(v) : v \in {JNull, Num(1)}}}

\* Serialize for Option<String>: None is written as null
StringMember(o) == IF o = None THEN JNull ELSE Str(o[1])

\* Serialize for Option<Value>: None is written as null, Some(v) as v is
ValueMember(o) == IF o = None THEN JNull ELSE o[1]

\* Serialize for Option<RpcError>
ErrorMember(o) == IF o = None THEN JNull ELSE <<"object", o[1]>>

\* ipc.rs line 18: serde_json::to_string(env), with the derive of lib.rs
to_string(env) ==
    [id |-> StringMember(env.id),
     kind |-> Str(env.kind),
     method |-> StringMember(env.method),
     params |-> ValueMember(env.params),
     result |-> ValueMember(env.result),
     error |-> ErrorMember(env.error),
     topic |-> StringMember(env.topic),
     payload |-> ValueMember(env.payload)]

\* Deserialize for Option<T>: null is read as None, anything else as Some
FromMember(m) == IF m = JNull THEN None ELSE Some(m[2])

\* Deserialize for Option<Value>: null is read as None, any other v as Some(v)
FromValueMember(m) == IF m = JNull THEN None ELSE Some(m)

\* ipc.rs line 13: serde_json::from_str(line.trim())
from_str(text) ==
    Envelope(FromMember(text.id), text.kind[2], FromMember(text.method),
             FromValueMember(text.params), FromValueMember(text.result),
             FromMember(text.error), FromMember(text.topic),
             FromValueMember(text.payload))

CodecInit ==
    /\ HostInit
    /\ ManagerIdle
    /\ StorageIdle
    /\ WritersIdle
    /\ SidesIdle
    /\ cenv \in {Some(env) : env \in CodecEnvelopes}
    /\ ctext = None
    /\ cdec = None

Serialize ==
    /\ cenv # None
    /\ ctext = None
    /\ ctext' = Some(to_string(cenv[1]))
    /\ UNCHANGED <<host, mvars, svars, wvars, pvars, tvars, bvars, cenv,
                   cdec>>

Deserialize ==
    /\ ctext # None
    /\ cdec = None
    /\ cdec' = Some(from_str(ctext[1]))
    /\ UNCHANGED <<host, mvars, svars, wvars, pvars, tvars, bvars, cenv,
                   ctext>>

CodecNext == Serialize \/ Deserialize

CodecSpec == CodecInit /\ [][CodecNext]_vars

-----------------------------------------------------------------------------
\* One plugin's store (services/storage.rs): a map behind a tokio Mutex and
\* the JSON file it is written to.  The put() calls are tasks of the host.

Puts == 1..MaxPuts
StorageKeys == {"a", "b"}
StorageValues == {Num(1), Num(2)}

\* HashMap<String, Value> holds the value of every key, None where there is
\* none; HashMap::new
EmptyMap == [k \in StorageKeys |-> None]

\* the file on disk: none, the JSON text of a map, or an incomplete text
NoFile == [kind |-> "absent", map |-> EmptyMap]
Whole(m) == [kind |-> "whole", map |-> m]
Partial == [kind |-> "partial", map |-> EmptyMap]

\* Storage::new, lines 18-22: the map of the file if it can be read and
\* parsed, and the empty map otherwise (unwrap_or_default, HashMap::new)
Load(f) == IF f.kind = "whole" THEN f.map ELSE EmptyMap

NewPut == [pc |-> "new", key |-> None, value |-> None, bytes |-> None]

StorageInit ==
    /\ HostInit
    /\ ManagerIdle
    /\ CodecIdle
    /\ WritersIdle
    /\ SidesIdle
    /\ file \in {Whole([EmptyMap EXCEPT !["a"] = Some(Num(1))]), NoFile}
    /\ data = Load(file)
    /\ base = data
    /\ smutex = None
    /\ puts = [i \in Puts |-> NewPut]
    /\ applied = <<>>
    /\ got = None
    /\ nrestart = 0

StorageFrame == UNCHANGED <<host, mvars, cvars, wvars, pvars, tvars, bvars>>

\* storage.rs line 35, self.data.lock(): granted when nobody holds the lock
LockFree_Always == TRUE

LockFree == smutex = None

\* put(key, value) is called
PutStart(i) ==
    /\ puts[i].pc = "new"
    /\ \E key \in StorageKeys, value \in StorageValues :
        puts' = [puts EXCEPT ![i] = [@ EXCEPT !.pc = "lock",
                                               !.key = Some(key),
                                               !.value = Some(value)]]
    /\ UNCHANGED <<data, file, smutex, base, applied, got, nrestart>>
    /\ StorageFrame

\* line 35: the lock is acquired
PutLock(i) ==
    /\ puts[i].pc = "lock"
    /\ LockFree
    /\ smutex' = Some(i)
    /\ puts' = [puts EXCEPT ![i].pc = "insert"]
    /\ UNCHANGED <<data, file, base, applied, got, nrestart>>
    /\ StorageFrame

\* lines 36-37: data.insert(key, value), then serde_json::to_vec(&*data)
PutInsert(i) ==
    /\ puts[i].pc = "insert"
    /\ data' = [data EXCEPT ![puts[i].key[1]] = puts[i].value]
    /\ puts' = [puts EXCEPT ![i] = [@ EXCEPT !.pc = "create",
                                               !.bytes = Some(data')]]
    /\ applied' = Append(applied, i)
    /\ UNCHANGED <<file, smutex, base, got, nrestart>>
    /\ StorageFrame

\* the guard of line 35 is dropped when put returns
Unlock(i) == IF smutex = Some(i) THEN None ELSE smutex

\* line 38, fs::write: the file is created or truncated, or cannot be and
\* put returns the error
PutCreate(i) ==
    /\ puts[i].pc = "create"
    /\ \/ /\ file' = Partial
          /\ puts' = [puts EXCEPT ![i].pc = "write"]
          /\ UNCHANGED smutex
       \/ /\ puts' = [puts EXCEPT ![i].pc = "failed"]
          /\ smutex' = Unlock(i)
          /\ UNCHANGED file
    /\ UNCHANGED <<data, base, applied, got, nrestart>>
    /\ StorageFrame

\* line 38, fs::write: the bytes are written and put returns Ok(()), or the
\* write fails part way and put returns the error
PutWrite(i) ==
    /\ puts[i].pc = "write"
    /\ \/ /\ file' = Whole(puts[i].bytes[1])
          /\ puts' = [puts EXCEPT ![i].pc = "done"]
       \/ /\ puts' = [puts EXCEPT ![i].pc = "failed"]
          /\ UNCHANGED file
    /\ smutex' = Unlock(i)
    /\ UNCHANGED <<data, base, applied, got, nrestart>>
    /\ StorageFrame

\* lines 29-31, get(key): the lock is taken, the value cloned, the lock
\* given back; got keeps the key, the value and the number of puts applied
Get ==
    /\ smutex = None
    /\ \E key \in StorageKeys :
        got' = Some(<<key, data[key], Len(applied)>>)
    /\ UNCHANGED <<data, file, smutex, puts, base, applied, nrestart>>
    /\ StorageFrame

\* the host crashes; the puts under way are lost with it, and the store is
\* opened again by Storage::new (lines 15-26)
Restart ==
    /\ nrestart < MaxRestarts
    /\ nrestart' = nrestart + 1
    /\ data' = Load(file)
    /\ base' = data'
    /\ smutex' = None
    /\ puts' = [i \in Puts |->
                  IF puts[i].pc \in {"lock", "insert", "create", "write"}
                  THEN [puts[i] EXCEPT !.pc = "lost"]
                  ELSE puts[i]]
    /\ applied' = <<>>
    /\ got' = None
    /\ UNCHANGED file
    /\ StorageFrame

put(i) ==
    \/ PutStart(i)
    \/ PutLock(i)
    \/ PutInsert(i)
    \/ PutCreate(i)
    \/ PutWrite(i)

StorageNext ==
    \/ \E i \in Puts : put(i)
    \/ Get
    \/ Restart

StorageSpec == StorageInit /\ [][StorageNext]_vars

-----------------------------------------------------------------------------
\* Two running plugins side by side.  Each start_plugin makes its own writer
\* (plugin_host.rs line 171), its own reader task (line 252) and its own
\* pending table; call() and the timer tasks write through the writer of the
\* plugin they belong to.  A write that finds the stdin pipe of the plugin
\* full does not return, and keeps the lock of that writer meanwhile.

TwoPlugins == {"A", "B"}
Other(p) == IF p = "A" THEN "B" ELSE "A"

\* the tasks of the host that write to plugin p
TasksOf(p) == {<<"call", p>>, <<"timer", p>>, <<"reader", p>>}
Tasks == UNION {TasksOf(p) : p \in TwoPlugins}

\* line 171: every plugin has a writer, and a lock, of its own
WriterOf_Shared(p) == "A"

WriterOf(p) == p

\* the line each task writes: call() a request, a timer task a tick, the
\* reader task the acknowledgement of event.subscribe
LineOf(t) ==
    CASE t[1] = "call" -> "request"
      [] t[1] = "timer" -> "tick"
      [] OTHER -> "ack"

\* plugin p has stopped reading, its pipe is full, and a task is inside
\* write_envelope with the lock of p's writer
Blocked(p) ==
    /\ ~reading[p]
    /\ Len(stdin[p]) = PipeCap
    /\ wmutex[WriterOf(p)] # None

IdleTask == [pc |-> "idle", late |-> FALSE]

WritersInit ==
    /\ HostInit
    /\ ManagerIdle
    /\ CodecIdle
    /\ StorageIdle
    /\ SidesIdle
    /\ wmutex = [p \in TwoPlugins |-> None]
    /\ stdin = [p \in TwoPlugins |-> <<>>]
    /\ stdout = [p \in TwoPlugins |-> <<>>]
    /\ reading = [p \in TwoPlugins |-> TRUE]
    /\ tasks = [t \in Tasks |-> IdleTask]

WritersFrame == UNCHANGED <<host, mvars, cvars, svars, pvars, tvars, bvars>>

\* a task sets out to write to its plugin
Begin(t) ==
    [tasks EXCEPT ![t] = [@ EXCEPT !.pc = "lock",
                                   !.late = Blocked(Other(t[2]))]]

\* call(p, ..) is invoked: lines 388-402, up to the slot in pending
WCallStart(p) ==
    /\ tasks[<<"call", p>>].pc = "idle"
    /\ tasks' = Begin(<<"call", p>>)
    /\ UNCHANGED <<wmutex, stdin, stdout, reading>>
    /\ WritersFrame

\* timer.rs line 21: interval.tick() of a timer of p fires
WTick(p) ==
    /\ tasks[<<"timer", p>>].pc = "idle"
    /\ tasks' = Begin(<<"timer", p>>)
    /\ UNCHANGED <<wmutex, stdin, stdout, reading>>
    /\ WritersFrame

\* writer.lock().await: plugin_host.rs lines 308 and 404, timer.rs line 36
WLock(t) ==
    /\ tasks[t].pc = "lock"
    /\ wmutex[WriterOf(t[2])] = None
    /\ wmutex' = [wmutex EXCEPT ![WriterOf(t[2])] = Some(t)]
    /\ tasks' = [tasks EXCEPT ![t].pc = "write"]
    /\ UNCHANGED <<stdin, stdout, reading>>
    /\ WritersFrame

\* write_envelope returns once the pipe has taken the line; the guard is
\* dropped; call() goes on to rx.await, the loops of the timer and of the
\* reader go round
WWrite(t) ==
    /\ tasks[t].pc = "write"
    /\ Len(stdin[t[2]]) < PipeCap
    /\ stdin' = [stdin EXCEPT ![t[2]] = Append(@, LineOf(t))]
    /\ wmutex' = [wmutex EXCEPT ![WriterOf(t[2])] = None]
    /\ tasks' = [tasks EXCEPT ![t] =
                    [@ EXCEPT !.pc = IF t[1] = "call" THEN "await"
                                                       ELSE "idle"]]
    /\ UNCHANGED <<stdout, reading>>
    /\ WritersFrame

\* plugin p takes a line from its stdin, and answers it if it is a request
PluginReads(p) ==
    /\ reading[p]
    /\ stdin[p] # <<>>
    /\ stdin' = [stdin EXCEPT ![p] = Tail(@)]
    /\ stdout' = IF Head(stdin[p]) = "request"
                 THEN [stdout EXCEPT ![p] = Append(@, "response")]
                 ELSE stdout
    /\ UNCHANGED <<wmutex, reading, tasks>>
    /\ WritersFrame

\* event.subscribe requests of p the reader task has not read yet
Subscribing(p) ==
    Cardinality({i \in 1..Len(stdout[p]) : stdout[p][i] = "request"})

\* plugin B sends an event.subscribe request
PluginSubscribes ==
    /\ Subscribing("B") < MaxSubs
    /\ stdout' = [stdout EXCEPT !["B"] = Append(@, "request")]
    /\ UNCHANGED <<wmutex, stdin, reading, tasks>>
    /\ WritersFrame

\* the reader task of p reads a line (line 255): a response resolves the
\* slot of the call that waits (lines 361-367), an event.subscribe request
\* is to be acknowledged through the writer of p (lines 285-309)
WRead(p) ==
    /\ tasks[<<"reader", p>>].pc = "idle"
    /\ stdout[p] # <<>>
    /\ stdout' = [stdout EXCEPT ![p] = Tail(@)]
    /\ tasks' = IF Head(stdout[p]) = "response"
                THEN [tasks EXCEPT ![<<"call", p>>].pc = "idle"]
                ELSE Begin(<<"reader", p>>)
    /\ UNCHANGED <<wmutex, stdin, reading>>
    /\ WritersFrame

\* plugin A stops reading its stdin, for good
StopReading ==
    /\ reading["A"]
    /\ reading' = [reading EXCEPT !["A"] = FALSE]
    /\ UNCHANGED <<wmutex, stdin, stdout, tasks>>
    /\ WritersFrame

WritersNext ==
    \/ \E p \in TwoPlugins : WCallStart(p)
    \/ \E p \in TwoPlugins : WTick(p)
    \/ \E t \in Tasks : WLock(t)
    \/ \E t \in Tasks : WWrite(t)
    \/ \E p \in TwoPlugins : PluginReads(p)
    \/ PluginSubscribes
    \/ \E p \in TwoPlugins : WRead(p)
    \/ StopReading

\* every task of B that can run does run, the lock of B's writer is granted
\* in the order it is asked for (tokio::sync::Mutex is fair), and plugin B
\* goes on reading its stdin; nothing is assumed of A and of A's tasks
WritersSpec ==
    /\ WritersInit
    /\ [][WritersNext]_vars
    /\ \A t \in TasksOf("B") : SF_vars(WLock(t)) /\ WF_vars(WWrite(t))
    /\ WF_vars(WRead("B"))
    /\ WF_vars(PluginReads("B"))

-----------------------------------------------------------------------------
\* family_chat's presence (plugins/family_chat/src/presence.rs) for one user:
\* every websocket of the user calls connect when it opens and disconnect
\* when it closes (api.rs, handle_socket), and announces what returned true.

Sockets == 1..MaxSockets

NewSocket == [pc |-> "new", reconnected |-> FALSE, ret |-> None]

PresenceInit ==
    /\ HostInit
    /\ ManagerIdle
    /\ CodecIdle
    /\ StorageIdle
    /\ WritersIdle
    /\ TimersIdle
    /\ BusIdle
    /\ counts = None
    /\ socks = [s \in Sockets |-> NewSocket]
    /\ sleeping = <<>>
    /\ said = <<>>

PresenceFrame ==
    UNCHANGED <<host, mvars, cvars, svars, wvars, tvars, bvars>>

\* presence.rs lines 22-24: the entry is made if need be and incremented;
\* connect returns whether it is 1 now
connect == counts = None \/ counts = Some(0)

\* api.rs lines 773-777: the socket opens, connect(u) is called and "online"
\* is broadcast if it returned true; the disconnects that sleep have seen a
\* connect
Connect(s) ==
    /\ socks[s].pc = "new"
    /\ counts' = IF counts = None THEN Some(1) ELSE Some(counts[1] + 1)
    /\ said' = IF connect THEN Append(said, "online") ELSE said
    /\ socks' = [t \in Sockets |->
                    IF t = s THEN [socks[t] EXCEPT !.pc = "open"]
                    ELSE IF socks[t].pc = "sleep"
                    THEN [socks[t] EXCEPT !.reconnected = TRUE]
                    ELSE socks[t]]
    /\ UNCHANGED sleeping
    /\ PresenceFrame

\* presence.rs lines 29-37: the socket has closed, disconnect(u) decrements
\* the count if it is above zero and goes to sleep for the debounce
DisconnectStart(s) ==
    /\ socks[s].pc = "open"
    /\ counts' = IF counts # None /\ counts[1] > 0
                 THEN Some(counts[1] - 1) ELSE counts
    /\ socks' = [socks EXCEPT ![s].pc = "sleep"]
    /\ sleeping' = Append(sleeping, s)
    /\ UNCHANGED said
    /\ PresenceFrame

\* presence.rs lines 38-45 and api.rs lines 866-870: the debounce of the
\* oldest sleeper expires; with a count of zero or no entry the entry is
\* removed, disconnect returns true and "offline" is broadcast
DisconnectExpire(s) ==
    /\ sleeping # <<>>
    /\ Head(sleeping) = s
    /\ sleeping' = Tail(sleeping)
    /\ IF counts = None \/ counts = Some(0)
       THEN /\ counts' = None
            /\ socks' = [socks EXCEPT ![s].pc = "closed",
                                      ![s].ret = Some(TRUE)]
            /\ said' = Append(said, "offline")
       ELSE /\ socks' = [socks EXCEPT ![s].pc = "closed",
                                      ![s].ret = Some(FALSE)]
            /\ UNCHANGED <<counts, said>>
    /\ PresenceFrame

PresenceNext ==
    \E s \in Sockets : Connect(s) \/ DisconnectStart(s) \/ DisconnectExpire(s)

PresenceSpec == PresenceInit /\ [][PresenceNext]_vars

-----------------------------------------------------------------------------
\* The timer.set_interval handler of the reader task and the timer tasks it
\* spawns, for a child that may name the same timer twice.

TimerIds == {"t", "u"}

\* the params the child sends; the last id is a number and names no timer
SetParams ==
    {IntervalParams(Str(id), Num(10)) : id \in TimerIds}
    \cup {IntervalParams(Num(0), Num(10))}

SetRequest(n, params) ==
    Envelope(Some(<<"p", n>>), "request", Some("timer.set_interval"), params,
             None, None, None, None)

TimersInit ==
    /\ HostInit
    /\ ManagerIdle
    /\ CodecIdle
    /\ StorageIdle
    /\ WritersIdle
    /\ PresenceIdle
    /\ BusIdle
    /\ treqs = <<>>
    /\ thandled = <<>>
    /\ ttasks = <<>>
    /\ twire = <<>>

TimersFrame == UNCHANGED <<host, mvars, cvars, svars, wvars, pvars, bvars>>

\* the child sends a timer.set_interval request
SetSend ==
    /\ Len(treqs) + Len(thandled) < MaxSets
    /\ \E params \in SetParams :
        treqs' = Append(treqs,
                        SetRequest(Len(treqs) + Len(thandled) + 1, params))
    /\ UNCHANGED <<thandled, ttasks, twire>>
    /\ TimersFrame

\* a handler that keeps one task for each timer id
SpawnTask_Replacing(params) ==
    LET id == params[1][2][2]
        same == {k \in 1..Len(ttasks) : ttasks[k].id = id}
    IN  IF same = {} THEN Append(ttasks, [id |-> id, ticks |-> 0])
        ELSE [k \in 1..Len(ttasks) |->
                IF k \in same THEN [id |-> id, ticks |-> 0] ELSE ttasks[k]]

\* plugin_host.rs lines 318-326 and timer.rs lines 16-18: tokio::spawn of a
\* new task that owns id and millis; no table of tasks is kept or looked up
SpawnTask(params) ==
    Append(ttasks, [id |-> params[1][2][2], ticks |-> 0])

\* plugin_host.rs lines 310-340: the reader task reads the request, spawns
\* a timer if id is a string and millis a u64, and answers
SetHandle ==
    /\ treqs # <<>>
    /\ treqs' = Tail(treqs)
    /\ thandled' = Append(thandled, Head(treqs))
    /\ ttasks' = IF SpawnsTimer(Head(treqs))
                 THEN SpawnTask(Head(treqs).params)
                 ELSE ttasks
    /\ UNCHANGED twire
    /\ TimersFrame

\* timer.rs lines 20-37: one round of the loop of task k writes a tick
TaskTick(k) ==
    /\ k \in 1..Len(ttasks)
    /\ ttasks[k].ticks < MaxTicks
    /\ ttasks' = [ttasks EXCEPT ![k].ticks = @ + 1]
    /\ twire' = Append(twire, <<k, TickEnv(ttasks[k].id)>>)
    /\ UNCHANGED <<treqs, thandled>>
    /\ TimersFrame

TimersNext ==
    \/ SetSend
    \/ SetHandle
    \/ \E k \in 1..MaxSets : TaskTick(k)

TimersSpec == TimersInit /\ [][TimersNext]_vars

-----------------------------------------------------------------------------
\* core/src/events.rs: the EventBus.  A receiver is what subscribe returned;
\* its inbox is everything sent into its channel.

Receivers == 1..MaxReceivers
Topics == {"a", "b"}
Payloads == {"x", "y"}

NoReceiver ==
    [state |-> "none", topic |-> None, inbox |-> <<>>, since |-> 0, till |-> 0]

BusInit ==
    /\ HostInit
    /\ ManagerIdle
    /\ CodecIdle
    /\ StorageIdle
    /\ WritersIdle
    /\ PresenceIdle
    /\ TimersIdle
    /\ subs = [t \in Topics |-> <<>>]
    /\ rcv = [r \in Receivers |-> NoReceiver]
    /\ published = <<>>

BusFrame == UNCHANGED <<host, mvars, cvars, svars, wvars, pvars, tvars>>

\* events.rs lines 18-25: a new channel, its sender pushed on the list of
\* the topic, its receiver returned
BusSubscribe(r) ==
    /\ rcv[r].state = "none"
    /\ \A q \in Receivers : q < r => rcv[q].state # "none"
    /\ \E topic \in Topics :
        /\ subs' = [subs EXCEPT ![topic] = Append(@, r)]
        /\ rcv' = [rcv EXCEPT ![r] = [@ EXCEPT !.state = "open",
                                               !.topic = Some(topic),
                                               !.since = Len(published)]]
    /\ UNCHANGED published
    /\ BusFrame

\* the holder of a receiver drops it
BusDrop(r) ==
    /\ rcv[r].state = "open"
    /\ rcv' = [rcv EXCEPT ![r] = [@ EXCEPT !.state = "dropped",
                                           !.till = Len(published)]]
    /\ UNCHANGED <<subs, published>>
    /\ BusFrame

\* a send that never fails
SendOk_Always(r) == TRUE

\* line 30: tx.send(..).is_ok(), which fails once the receiver is dropped
SendOk(r) == rcv[r].state = "open"

\* events.rs lines 28-32: the senders of the topic are tried in turn and
\* those whose send failed are removed from the list
BusPublish ==
    /\ Len(published) < MaxPublishes
    /\ \E topic \in Topics, payload \in Payloads :
        /\ published' = Append(published, <<topic, payload>>)
        /\ subs' = [subs EXCEPT ![topic] = SelectSeq(@, SendOk)]
        /\ rcv' = [r \in Receivers |->
                    IF /\ \E i \in 1..Len(subs[topic]) : subs[topic][i] = r
                       /\ SendOk(r)
                    THEN [rcv[r] EXCEPT !.inbox = Append(@, payload)]
                    ELSE rcv[r]]
    /\ BusFrame

BusNext ==
    \/ \E r \in Receivers : BusSubscribe(r) \/ BusDrop(r)
    \/ BusPublish

BusSpec == BusInit /\ [][BusNext]_vars

-----------------------------------------------------------------------------
\* What the claims speak of.

\* the envelopes whose lines reached the child's stdin, in order
WireEnvs ==
    LET bodies == SelectSeq(wire, LAMBDA ch : ch[1] = "body")
    IN [i \in 1..Len(bodies) |-> bodies[i][2]]

\* every envelope handed to the writer, flushed or not
WrittenEnvs ==
    LET bodies == SelectSeq(wire \o wbuf, LAMBDA ch : ch[1] = "body")
    IN [i \in 1..Len(bodies) |-> bodies[i][2]]

IsEvent(env, topic) ==
    env.kind = "event" /\ env.topic = Some(topic) /\ env.id = None

IsOkResponse(env, id) ==
    /\ env.kind = "response"
    /\ env.id = id
    /\ env.result = Some("{ok:true}")
    /\ env.error = None

IsTick(env) == env.kind = "event" /\ env.topic = Some("timer.tick")

\* C1: the host's handshake envelopes are core.hello, the answer to the
\* plugin.init request read, the answer to the plugin.start request read and
\* system.ready, in this order with nothing in between; an answer is on the
\* wire only once its request was read, and the status is Running only once
\* system.ready is on the wire.
C1_HandshakeOrder ==
    LET E == WireEnvs IN
    /\ Len(E) >= 1 => IsEvent(E[1], "core.hello")
    /\ Len(E) >= 2 => /\ Len(spRead) >= 1
                      /\ spRead[1].kind = "request"
                      /\ spRead[1].method = Some("plugin.init")
                      /\ IsOkResponse(E[2], spRead[1].id)
    /\ Len(E) >= 3 => /\ Len(spRead) >= 2
                      /\ spRead[2].kind = "request"
                      /\ spRead[2].method = Some("plugin.start")
                      /\ IsOkResponse(E[3], spRead[2].id)
    /\ Len(E) >= 4 => IsEvent(E[4], "system.ready")
    /\ status = "Running" => Len(E) >= 4
    /\ sp \notin {"done", "failed"} => Len(E) <= 4

C1_Witness ==
    /\ status = "Running"
    /\ Len(WireEnvs) >= 4
    /\ WireEnvs[2].id = Some(<<"p", 1>>)
    /\ WireEnvs[3].id = Some(<<"p", 2>>)

\* C2: a plugin whose handshake succeeded is sent exactly one system.ready,
\* and that event is on the wire before every timer.tick and before every
\* request of call().
C2_ReadyFirst ==
    LET E == WireEnvs
        readyAt == {i \in 1..Len(E) : IsEvent(E[i], "system.ready")}
    IN /\ Cardinality(readyAt) <= 1
       /\ status = "Running" => Cardinality(readyAt) = 1
       /\ \A i \in 1..Len(E) :
            IsTick(E[i]) \/ E[i].kind = "request" => \E j \in readyAt : j < i

C2_Witness ==
    /\ status = "Running"
    /\ \E i, j \in 1..Len(WireEnvs) :
        IsTick(WireEnvs[i]) /\ WireEnvs[j].kind = "request"

\* C3: whatever the order of the plugin's answers, a caller is resumed only
\* with a response whose id is the id of the request it wrote, and it returns
\* what that response carries.
C3_ResponseToItsCaller ==
    \A c \in Callers :
        /\ \A k \in 1..Len(resolved[c]) : resolved[c][k].id = callers[c].id
        /\ callers[c].pc = "ok" =>
              /\ resolved[c] # <<>>
              /\ resolved[c][1].error = None
              /\ resolved[c][1].result # None =>
                    callers[c].ret = resolved[c][1].result
        /\ callers[c].pc = "err" /\ resolved[c] # <<>> =>
              callers[c].ret[1].message = resolved[c][1].error[1].message

\* calls 1 and 2 in flight together, 2 answered first: it has returned the
\* result while 1, which wrote its request earlier, still waits
C3_Witness ==
    /\ MaxCalls >= 2
    /\ callers[1].pc = "await"
    /\ resolved[1] = <<>>
    /\ callers[2].pc = "ok"
    /\ callers[2].ret = resolved[2][1].result
    /\ \E i, j \in 1..Len(WireEnvs) :
        /\ i < j
        /\ WireEnvs[i].id = callers[1].id
        /\ WireEnvs[j].id = callers[2].id

\* the request the reader task read as its i-th has been dealt with
Handled(i) == i < Len(answered) \/ reader \in {"read", "exited"}

\* the responses handed to the writer under the id of the i-th request
ResponsesTo(i) ==
    {k \in 1..Len(WrittenEnvs) :
        WrittenEnvs[k].kind = "response" /\ WrittenEnvs[k].id = answered[i].id}

\* C4: for every request the reader task receives, with or without a method,
\* the host writes exactly one response, and it carries the request's id.
C4_OneResponsePerRequest ==
    \A i \in 1..Len(answered) : Handled(i) => Cardinality(ResponsesTo(i)) = 1

IsUnknown(env) ==
    /\ env.method # None
    /\ env.method[1] \notin {"log.write", "event.subscribe", "timer.set_interval"}

\* C5: a request for a method other than log.write, event.subscribe and
\* timer.set_interval is answered by one response with the request's id, no
\* result and the error {code: -32601, message: "unknown method <m>"}, and
\* the reader task goes on reading after it.
C5_UnknownMethod ==
    /\ [](\A i \in 1..Len(answered) :
            Handled(i) /\ IsUnknown(answered[i]) =>
                /\ Cardinality(ResponsesTo(i)) = 1
                /\ \A k \in ResponsesTo(i) :
                    /\ WrittenEnvs[k].result = None
                    /\ WrittenEnvs[k].error = Some(
                          [code |-> 0 - 32601,
                           message |-> <<"unknown method ",
                                         answered[i].method[1]>>]))
    /\ [][Len(answered) > 0 /\ IsUnknown(answered[Len(answered)])
            /\ reader \in {"respond", "flush"}
          => reader' \in {"respond", "flush", "read"}]_vars

\* an unknown method was answered and a later request was read
C5_Witness ==
    /\ Len(answered) >= 2
    /\ IsUnknown(answered[1])
    /\ Cardinality(ResponsesTo(1)) = 1
    /\ stdinOpen

\* C6: when the child's stdout ends while calls await their responses, every
\* such call returns in the end; none stays suspended for ever.
C6_OutstandingCallsReturn ==
    \A c \in Callers :
        (outClosed /\ reader # "exited" /\ callers[c].pc = "await")
            ~> (callers[c].pc # "await")

\* C7: once the reader task of a Running plugin has exited on a read failure,
\* the status of the handle becomes Stopped and is no longer Running.
C7_StoppedAfterReaderExit ==
    (reader = "exited") ~> (status = "Stopped")

\* C8: a call() started after the child has exited and the reader task has
\* terminated returns a failure; it never waits for a response.
C8_LateCallsFail ==
    \A c \in Callers :
        callers[c].late => callers[c].pc \notin {"await", "ok"}

C8_Witness ==
    \E c \in Callers : callers[c].late /\ callers[c].pc = "err"

\* C9: the bytes on the child's stdin are complete envelopes, each followed
\* by one line feed, whatever the interleaving of the reader task, the timer
\* tasks and the callers; whoever is inside write_envelope holds the mutex.
C9_NoInterleaving ==
    /\ Len(wire) % 2 = 0
    /\ \A i \in 1..Len(wire) :
        wire[i][1] = IF i % 2 = 1 THEN "body" ELSE "nl"
    /\ reader = "flush" => mutex = ReaderTask
    /\ \A t \in Timers : timers[t].pc = "flush" => mutex = TimerTask(t)
    /\ \A c \in Callers : callers[c].pc = "flush" => mutex = CallTask(c)
    /\ sp \in {"hello_flush", "init_flush", "start_flush", "ready",
               "ready_flush"} => mutex = StartTask

\* a tick, an answer of the reader task and a request of call() on the wire
C9_Witness ==
    \E i, j, k \in 1..Len(WireEnvs) :
        /\ IsTick(WireEnvs[i])
        /\ WireEnvs[j].kind = "response" /\ j > 4
        /\ WireEnvs[k].kind = "request"
        /\ k < i

\* C10: a pending slot is resolved at most once, and once it is resolved its
\* id is no longer a key of the pending table.
C10_ResolvedOnce ==
    \A c \in Callers :
        /\ Len(resolved[c]) <= 1
        /\ resolved[c] # <<>> => callers[c].id[1] \notin DOMAIN pending

\* a slot was resolved and a second response with its id has arrived
C10_Witness ==
    \E c \in Callers :
        /\ resolved[c] # <<>>
        /\ out # <<>>
        /\ Head(out)[1] = "json"
        /\ Head(out)[2].kind = "response"
        /\ Head(out)[2].id = callers[c].id

\* C11: a call() that is cancelled after it inserted its pending slot and
\* before its response arrived no longer has its id in the pending table.
C11_CancelRemovesSlot ==
    \A c \in Callers :
        callers[c].pc = "cancelled" /\ resolved[c] = <<>> =>
            callers[c].id[1] \notin DOMAIN pending

\* C12: when a read of the handshake ends the stream, yields an undecodable
\* line or yields something other than the expected request, start_plugin
\* fails, the child is killed and the status of the handle becomes Stopped.
C12_FailedHandshakeStops ==
    [][(sp \in {"read_init", "read_start"} /\ sp' = "failed")
         => (status' = "Stopped" /\ childAlive' = FALSE)]_vars

\* C13: a call() on an id that is no key of the manager's table, or on a
\* plugin that is not Running, returns a failure at once: the step writes no
\* envelope and adds no entry to the pending table, and a call that was given
\* no request id never writes.
C13_NotRunningCallFails ==
    /\ [](\A c \in Callers :
            callers[c].id = None => callers[c].pc \in {"new", "err"})
    /\ [][\A c \in Callers :
            (/\ callers[c].pc = "new"
             /\ callers'[c].pc # "new"
             /\ callers'[c].plugin[1] \notin Plugins \/ status # "Running")
            => /\ callers'[c].pc = "err"
               /\ callers'[c].id = None
               /\ UNCHANGED <<wire, wbuf, pending, nuuid, mutex>>]_vars

\* an absent plugin was called, and the plugin whose start failed was called
C13_Witness ==
    /\ sp = "failed"
    /\ \E c, d \in Callers :
        /\ callers[c].ret = Some(anyhow(<<"plugin not found">>))
        /\ callers[d].plugin = Some("sample")
        /\ callers[d].ret = Some(anyhow(<<"plugin not running">>))

\* C14: a call() whose response carries an error fails with a failure that
\* holds the error's code and its message; otherwise it returns the result
\* of the response, or null when there is none.
C14_ErrorCodeAndMessage ==
    \A c \in Callers :
        /\ callers[c].pc = "ok" =>
              callers[c].ret = IF resolved[c][1].result = None
                               THEN Some(<<"null">>)
                               ELSE resolved[c][1].result
        /\ callers[c].pc = "err" /\ resolved[c] # <<>> =>
              /\ callers[c].ret[1].message = resolved[c][1].error[1].message
              /\ "code" \in DOMAIN callers[c].ret[1]
              /\ callers[c].ret[1].code = resolved[c][1].error[1].code

\* the three shapes of an envelope
WellFormed(env) ==
    \/ env.kind = "request" /\ env.id # None /\ env.method # None
    \/ /\ env.kind = "response"
       /\ env.id # None
       /\ (env.result # None) # (env.error # None)
    \/ env.kind = "event" /\ env.topic # None

\* C17: the host acts only on envelopes of the three shapes: the requests
\* the handshake accepted, the requests the reader task answered and the
\* responses it handed to a caller are each a request with id and method or
\* a response with an id and exactly one of result and error.
C17_OnlyWellFormedActedOn ==
    /\ \A i \in 1..Len(spRead) : WellFormed(spRead[i])
    /\ \A i \in 1..Len(answered) :
        ResponsesTo(i) # {} => WellFormed(answered[i])
    /\ \A c \in Callers :
        \A k \in 1..Len(resolved[c]) : WellFormed(resolved[c][k])

IsSubscribe(env) == env.method = Some("event.subscribe")

\* C18: the subscription set of the reader task is the union of the string
\* topics of all event.subscribe requests read so far, so a request read a
\* second time leaves it as it was and no topic ever leaves it; each such
\* request is answered once, with {ok:true}.
C18_SubscribeUnion ==
    /\ subscriptions =
          UNION {StringTopics(answered[i].params) :
                    i \in {j \in 1..Len(answered) : IsSubscribe(answered[j])}}
    /\ \A i \in 1..Len(answered) :
        Handled(i) /\ IsSubscribe(answered[i]) =>
            /\ Cardinality(ResponsesTo(i)) = 1
            /\ \A k \in ResponsesTo(i) :
                IsOkResponse(WrittenEnvs[k], answered[i].id)

\* the same topics, one of them no string, were processed twice
C18_Witness ==
    /\ Len(answered) = 2
    /\ IsSubscribe(answered[1])
    /\ answered[2].params = answered[1].params
    /\ IsSubscribe(answered[2])
    /\ Handled(2)
    /\ subscriptions = {"plugin.event"}

\* C19: once an event.subscribe request is answered, the set in the handle,
\* PluginHandle.subscriptions, holds each of its string topics.
C19_HandleHoldsTopics ==
    \A i \in 1..Len(answered) :
        Handled(i) /\ IsSubscribe(answered[i]) /\ ResponsesTo(i) # {} =>
            StringTopics(answered[i].params) \subseteq handleSubs

\* the timer.tick events with the id of timer t handed to the writer
TicksWritten(t) ==
    IF timers[t].id = None THEN 0
    ELSE Cardinality({k \in 1..Len(WrittenEnvs) :
            /\ IsTick(WrittenEnvs[k])
            /\ WrittenEnvs[k].payload =
                  Some(<<"id", timers[t].id[1], "now_ms">>)})

\* C20: once timer.set_interval with a string id and a u64 millis was
\* processed, timer.tick events with that id are written again and again,
\* subscribed or not: a timer that was set does not stop short of the bounds
\* of the model, it writes its MaxTicks ticks unless the events run out first.
C20_TimerKeepsTicking ==
    \A t \in Timers :
        []<>(\/ timers[t].pc = "none"
             \/ TicksWritten(t) >= MaxTicks
             \/ Events >= MaxEvents)

\* two ticks reached a child that never subscribed to timer.tick
C20_Witness ==
    \E t \in Timers :
        /\ timers[t].pc # "none"
        /\ TicksWritten(t) >= 2
        /\ "timer.tick" \notin subscriptions
        /\ Cardinality({k \in 1..Len(WireEnvs) : IsTick(WireEnvs[k])}) >= 2

\* C15: when start_all has returned, every discovered plugin whose own spawn
\* and handshake succeed is Running, whatever the order of the keys and
\* whichever other plugins failed.
C15_FailuresDoNotCascade ==
    sres \in {"Ok", "Err"} =>
        \A id \in DOMAIN plugins :
            listing[plugins[id].dir].healthy => plugins[id].status = "Running"

\* the directories of the listing that hold a manifest that parses
Manifests == {d \in 1..Len(listing) : listing[d].kind = "plugin"}

\* C16: discover() returns no manager for a directory in which two manifests
\* declare the same id.
C16_DuplicateIdsRejected ==
    dres = "Ok" =>
        \A d, e \in Manifests : listing[d].id = listing[e].id => d = e

Live(c) == callers[c].pc \in {"lock", "flush", "await"}

\* the reader task takes from the child's stdout a response with this id
ReadsResponse(id) ==
    /\ reader = "read"
    /\ out # <<>>
    /\ Head(out)[1] = "json"
    /\ Head(out)[2].kind = "response"
    /\ Head(out)[2].id = id
    /\ out' = Tail(out)

\* C27: call() stores its sender in the pending table before it writes any
\* byte of its request: a live call that is not yet answered has its slot,
\* every request handed to the writer had its slot before, and a response
\* read for a live call that is not yet answered is delivered to it.
C27_SlotBeforeRequest ==
    /\ [](\A c \in Callers :
            Live(c) /\ resolved[c] = <<>> =>
                /\ callers[c].id[1] \in DOMAIN pending
                /\ pending[callers[c].id[1]] = c)
    /\ [](\A k \in 1..Len(WrittenEnvs) :
            WrittenEnvs[k].kind = "request" =>
                \E c \in Callers :
                    /\ callers[c].id = WrittenEnvs[k].id
                    /\ callers[c].id[1] \in DOMAIN pending
                       \/ resolved[c] # <<>>)
    /\ [][\A c \in Callers :
            Live(c) /\ resolved[c] = <<>> /\ ReadsResponse(callers[c].id)
                => resolved'[c] = <<Head(out)[2]>>]_vars

\* the response to a call that still waits was read and found its slot
C27_Witness ==
    \E c \in Callers :
        /\ callers[c].pc = "await"
        /\ resolved[c] # <<>>
        /\ resolved[c][1].id = callers[c].id

\* the reader task takes from the child's stdout a response that has no id
\* or whose id is no key of the pending table
ReadsUnknownResponse ==
    /\ reader = "read"
    /\ out # <<>>
    /\ Head(out)[1] = "json"
    /\ Head(out)[2].kind = "response"
    /\ ~HasSlot(Head(out)[2])
    /\ out' = Tail(out)

\* C28: a response without an id, or with an id that is no key of the
\* pending table, is discarded: the step leaves the table, the callers, the
\* channels and the writer as they were, and the reader task reads on.
C28_UnknownResponseDiscarded ==
    [][ReadsUnknownResponse =>
          /\ UNCHANGED <<pending, resolved, callers, mutex, wbuf, wire, rdEnv>>
          /\ reader' = "read"
          /\ dropped' = Append(dropped, Head(out)[2])]_vars

\* while a call waits, a response without id and then one with an id unknown
\* to the table were read and discarded
C28_Witness ==
    /\ Len(dropped) = 2
    /\ dropped[1].id = None
    /\ dropped[2].id = Some(UnknownId)
    /\ reader = "read"
    /\ \E c \in Callers :
        /\ callers[c].pc = "await"
        /\ resolved[c] = <<>>
        /\ callers[c].id[1] \in DOMAIN pending

\* the reader task takes an undecodable line from the child's stdout
ReadsJunk ==
    /\ reader = "read"
    /\ out # <<>>
    /\ Head(out) = Junk
    /\ out' = Tail(out)

\* C29: on a line that is no decodable envelope the reader task exits as on
\* end of stream, having acted on nothing; once it has exited no line of the
\* child is taken from its stdout and nothing is answered, delivered or
\* removed from the pending table.
C29_UndecodableEndsReader ==
    /\ [][ReadsJunk =>
            /\ reader' = "exited"
            /\ UNCHANGED <<pending, resolved, answered, dropped, subscriptions,
                           timers, mutex, wbuf, wire>>]_vars
    /\ [][reader = "exited" =>
            /\ reader' = "exited"
            /\ Len(out') >= Len(out)
            /\ SubSeq(out', 1, Len(out)) = out
            /\ DOMAIN pending \subseteq DOMAIN pending'
            /\ UNCHANGED <<resolved, answered, dropped, subscriptions>>]_vars

\* the reader task has exited on an undecodable line of a live child, and the
\* response to a call that waits lies unread on the child's stdout
C29_Witness ==
    /\ reader = "exited"
    /\ outClosed = FALSE
    /\ out # <<>>
    /\ Head(out)[1] = "json"
    /\ Head(out)[2].kind = "response"
    /\ HasSlot(Head(out)[2])
    /\ callers[pending[Head(out)[2].id[1]]].pc = "await"

\* C30: a plugin.init or plugin.start request without an id fails the
\* handshake: the status is not Running after the handshake read such a
\* request, and no response the host has written lacks an id.
C30_HandshakeRequiresId ==
    /\ status = "Running" => \A i \in 1..Len(spRead) : spRead[i].id # None
    /\ \A k \in 1..Len(WrittenEnvs) :
        WrittenEnvs[k].kind = "response" => WrittenEnvs[k].id # None

\* C23: whatever discover and start_all invocations were made, a plugin has
\* at most one child process running and at most one reader task on its
\* pending table.
C23_OneChildOneReader ==
    \A id \in DOMAIN plugins :
        plugins[id].children <= 1 /\ plugins[id].readers <= 1

\* C24: the envelope read back from the text of an envelope equals that
\* envelope, for every kind and every combination of present and absent
\* fields.
C24_RoundTrip == cdec # None => cdec = cenv

\* the value of the last of the first n puts applied that was a put of k,
\* and what Storage::new loaded for k if there was none
LastApplied(k, n) ==
    LET on == {j \in 1..n : puts[applied[j]].key = Some(k)}
    IN  IF on = {} THEN base[k]
        ELSE puts[applied[CHOOSE j \in on : \A j2 \in on : j2 <= j]].value

\* no put holds the lock and the last put applied returned Ok(())
PutsSettled ==
    /\ smutex = None
    /\ applied # <<>>
    /\ puts[applied[Len(applied)]].pc = "done"

\* C25: concurrent puts on one store are serialized: the map holds for every
\* key the value of the put applied last to it (what was loaded, if none),
\* get returns that value, and once no put is under way and the last one
\* applied has returned Ok the file holds the same map.
C25_PutsSerialized ==
    puts # None =>
        /\ \A k \in StorageKeys : data[k] = LastApplied(k, Len(applied))
        /\ got # None => got[1][2] = LastApplied(got[1][1], got[1][3])
        /\ PutsSettled => file = Whole(data)

\* two puts of different values to one key have both returned Ok, and a get
\* after them returned the value of the second
C25_Witness ==
    /\ puts # None
    /\ \A i \in Puts : puts[i].pc = "done"
    /\ puts[1].key = puts[2].key
    /\ puts[1].value # puts[2].value
    /\ applied = <<2, 1>>
    /\ got = Some(<<puts[1].key[1], puts[1].value, 2>>)
    /\ file = Whole(data)

\* C26: put rewrites the file atomically: the file never holds a truncated
\* or partial text, and a put that failed leaves the map equal to what the
\* file holds.
C26_AtomicRewrite ==
    puts # None =>
        /\ file.kind # "partial"
        /\ (smutex = None /\ \E i \in Puts : puts[i].pc = "failed")
             => data = Load(file)

\* C22: whatever plugin A does with its stdin, and whoever is stuck in a
\* write to A, the tasks of plugin B make progress: every call() on B
\* returns, and B's timer task and B's reader task finish every write they
\* begin.
C22_OthersProgress ==
    \A t \in TasksOf("B") : []<>(tasks[t].pc = "idle")

\* plugin A has stopped reading and a task is stuck inside a write to it with
\* another waiting for the lock, while the call, the timer task and the
\* reader task of B have each finished a round begun after that
C22_Witness ==
    /\ tasks # None
    /\ Blocked("A")
    /\ wmutex["A"] = Some(<<"call", "A">>)
    /\ reading["B"]
    /\ \A t \in TasksOf("B") :
        tasks[t].late /\ tasks[t].pc = "idle"

\* C36: a call() whose request could not be written returns an error and
\* leaves no slot for its request id in the pending table.
C36_FailedWriteLeavesNoSlot ==
    \A c \in Callers :
        (callers[c].pc = "err" /\ callers[c].id # None)
            => callers[c].id[1] \notin DOMAIN pending

\* C33: in every state of the handle, status is Running exactly when a
\* writer is present and exactly when a child is present; a start_plugin
\* that failed, at spawn or in the handshake, has left the three as
\* PluginHandle::new made them.
C33_RunningIffWriterIffChild ==
    /\ (status = "Running") <=> writerSome
    /\ writerSome <=> childSome
    /\ sp = "failed" => (status = "Discovered" /\ ~writerSome /\ ~childSome)

\* start_plugin has spawned the child, read a line in the handshake and
\* failed, and the handle is as it was
C33_Witness ==
    /\ sp = "failed"
    /\ childAlive
    /\ spRead # <<>>
    /\ status = "Discovered"
    /\ ~writerSome
    /\ ~childSome

\* the request id of the timer.set_interval request that named timer id
RequestOfTimer(id) == Some(<<"p", id[2]>>)

\* C34: the {ok:true} response to a timer.set_interval request is handed to
\* the writer before the first timer.tick of the timer that the request
\* created.
C34_AckBeforeFirstTick ==
    LET E == WrittenEnvs IN
    \A k \in 1..Len(E) :
        IsTick(E[k]) =>
            \E j \in 1..(k - 1) :
                IsOkResponse(E[j], RequestOfTimer(E[k].payload[1][2]))

\* params that are missing or ill-typed for the method they come with
IllTypedParams(env) ==
    \/ env.params = None
    \/ /\ env.method = Some("log.write")
       /\ (env.params[1][2][1] # "str" \/ env.params[1][3][1] # "str")
    \/ /\ env.method = Some("event.subscribe")
       /\ env.params[1][1] # "topics"
    \/ /\ env.method = Some("timer.set_interval")
       /\ \/ env.params[1][2][1] # "str"
          \/ env.params[1][3][1] # "num"
          \/ env.params[1][3][2] < 0

\* C37: a log.write, event.subscribe or timer.set_interval request is
\* answered with {ok:true} whatever its params; if they are missing or
\* ill-typed nothing is logged, the subscription set is unchanged and no
\* timer task is spawned; of a topics array the strings are added and the
\* other items skipped.
C37_IllTypedParamsAcked ==
    /\ [](\A i \in 1..Len(answered) :
            (Handled(i) /\ ~IsUnknown(answered[i]) /\ answered[i].method # None)
                => \E k \in ResponsesTo(i) :
                        IsOkResponse(WrittenEnvs[k], answered[i].id))
    /\ [][Len(answered') = Len(answered) + 1 =>
            LET env == answered'[Len(answered')] IN
            /\ rdEnv' = Some(AckEnv(env.id))
            /\ IllTypedParams(env) =>
                UNCHANGED <<logged, subscriptions, timers>>
            /\ (IsSubscribe(env) /\ ~IllTypedParams(env)) =>
                subscriptions' = subscriptions \cup
                    {env.params[1][2][j][2] :
                        j \in {i \in 1..Len(env.params[1][2]) :
                                env.params[1][2][i][1] = "str"}}]_vars

\* a log.write whose message is a number and an event.subscribe whose array
\* holds a number were both answered; nothing was logged and the one string
\* topic is in the set
C37_Witness ==
    /\ Len(answered) = 2
    /\ reader = "read"
    /\ answered[1].method = Some("log.write")
    /\ answered[1].params = LogParams(Str("INFO"), Num(1))
    /\ answered[2].params = TopicsParams(<<Str("plugin.event"), Num(1)>>)
    /\ \A i \in 1..2 : \E k \in 1..Len(WireEnvs) :
            IsOkResponse(WireEnvs[k], answered[i].id)
    /\ logged = <<>>
    /\ subscriptions = {"plugin.event"}
    /\ \A t \in Timers : timers[t].pc = "none"

\* a request of the child waits for its response: it is in the pipe, or the
\* reader task has read it and not yet written the response
RequestPending ==
    \/ reader \in {"respond", "flush"}
    \/ \E i \in 1..Len(out) : out[i][1] = "json" /\ out[i][2].kind = "request"

TicksOf(k) == SelectSeq(twire, LAMBDA w : w[1] = k)

\* the requests handled so far that were well-formed
WellFormedSets ==
    {i \in 1..Len(thandled) : SpawnsTimer(thandled[i])}

Expires(s) == socks[s].pc = "sleep" /\ socks'[s].pc = "closed"

\* the user has an open websocket
HasOpen == \E t \in Sockets : socks[t].pc = "open"

C38_AnnouncementsAlternate ==
    \A i \in 1..Len(said) :
        said[i] = IF i % 2 = 1 THEN "online" ELSE "offline"

\* the receivers on the list of a topic
Listed(topic) == {subs[topic][i] : i \in 1..Len(subs[topic])}

\* the payloads published on the topic of receiver r while it was open, in
\* publish order
Due(r) ==
    LET last == IF rcv[r].state = "dropped" THEN rcv[r].till
                ELSE Len(published)
        mine == SelectSeq(SubSeq(published, rcv[r].since + 1, last),
                          LAMBDA e : Some(e[1]) = rcv[r].topic)
    IN  [i \in 1..Len(mine) |-> mine[i][2]]

\* a publish on the topic of receiver r came after r was dropped
PublishedSinceDrop(r) ==
    /\ rcv[r].state = "dropped"
    /\ \E k \in (rcv[r].till + 1)..Len(published) :
            Some(published[k][1]) = rcv[r].topic

\* C39: a receiver holds, once each and in publish order, the payloads
\* published on its own topic while it was open and nothing else; the list
\* of a topic holds its open receivers in the order they subscribed, each
\* once, and a dropped receiver stays on it until the next publish on that
\* topic and is gone after it; a publish leaves the lists of the other
\* topics as they were.
C39_PublishDelivers ==
    /\ [](/\ \A r \in Receivers :
                rcv[r].state # "none" => rcv[r].inbox = Due(r)
          /\ \A topic \in Topics :
                /\ \A i, j \in 1..Len(subs[topic]) :
                        i < j => subs[topic][i] < subs[topic][j]
                /\ \A r \in Receivers :
                        r \in Listed(topic) <=>
                            /\ rcv[r].topic = Some(topic)
                            /\ ~PublishedSinceDrop(r))
    /\ [][Len(published') = Len(published) + 1 =>
            \A topic \in Topics :
                topic # published'[Len(published')][1] =>
                    subs'[topic] = subs[topic]]_vars

\* two receivers of one topic, the first dropped after the first publish:
\* the second publish reached the second receiver only and took the first
\* off the list
C39_Witness ==
    /\ Len(published) = 2
    /\ published[1][1] = "a"
    /\ published[2][1] = "a"
    /\ rcv[1].state = "dropped"
    /\ rcv[1].topic = Some("a")
    /\ rcv[1].inbox = <<published[1][2]>>
    /\ rcv[2].state = "open"
    /\ rcv[2].inbox = <<published[1][2], published[2][2]>>
    /\ subs["a"] = <<2>>

====
